---- MODULE Spec2Model ----
(***************************************************************************)
(* A model of gtdb.TreeManager (src/src/gtdb/TreeManager.py): the genome   *)
(* filter pipeline filterGenomes with its helpers _taxa_filter,            *)
(* _genomesFromTaxa and _filterOnGenomeQuality, the alignment trimmer     *)
(* _trim_seqs, and writeFiles, which concatenates the markers and trims.   *)
(*                                                                         *)
(* Conventions.  A Python str is a sequence of one-character strings.  A   *)
(* database table is a function from its key to its row; a query is the    *)
(* set of rows its WHERE clause selects.  Percentages and scores are       *)
(* integers; the float comparisons of the code are cross-multiplied, which *)
(* is exact for the values drawn here (all are exactly representable).     *)
(* A Python set iterated by a for loop is visited in increasing id order.  *)
(***************************************************************************)
EXTENDS Integers, Sequences, FiniteSets, TLC

VARIABLES
    pc,                 \* position of the filterGenomes call
    error,              \* the exception that ended the call, or NoError
    genome_ids,         \* the caller's genome_ids set object
    args,               \* the other arguments of filterGenomes, as passed
    db,                 \* metadata_genes, metadata_taxonomy, aligned_markers
    external_ids,       \* dict: db genome id -> external id (line 106)
    guaranteed_ids,     \* local guaranteed_ids (rebound at line 115)
    guaranteed_is_list, \* whether guaranteed_ids is bound to a list
    genome_ids_from_taxa, \* what the last call of _genomesFromTaxa returned
    genomes_to_retain,  \* local genomes_to_retain
    aliased,            \* genomes_to_retain is the genome_ids object itself
    entered,            \* value of genomes_to_retain when the last stage began
    fout_filtered,      \* the filter report: [open, lines]
    logger,             \* the warnings given to self.logger.warning, in order
    trim,               \* state of the _trim_seqs calls
    wf                  \* state of the writeFiles call

vars == <<pc, error, genome_ids, args, db, external_ids, guaranteed_ids,
          guaranteed_is_list, genome_ids_from_taxa, genomes_to_retain, aliased,
          entered, fout_filtered, logger, trim, wf>>

filterVars == <<pc, error, genome_ids, args, db, external_ids, guaranteed_ids,
                guaranteed_is_list, genome_ids_from_taxa, genomes_to_retain,
                aliased, entered, fout_filtered, logger>>

-----------------------------------------------------------------------------
(* Generic helpers *)

RECURSIVE SetToSeq(_)
SetToSeq(S) ==
    IF S = {} THEN <<>>
    ELSE LET m == CHOOSE x \in S : \A y \in S : x <= y
         IN <<m>> \o SetToSeq(S \ {m})

RECURSIVE SeqSum(_)
SeqSum(s) == IF s = <<>> THEN 0 ELSE Head(s) + SeqSum(Tail(s))

Range(s) == {s[i] : i \in DOMAIN s}

NoError == [type |-> "none"]

\* one call of self.logger.warning: the message and the genome or count it names
Warning(msg, about) == [msg |-> msg, about |-> about]

-----------------------------------------------------------------------------
(* The database and the inputs drawn for a run *)

Genomes == {1, 2}

\* biolib Taxonomy.rank_prefixes, in rank order (rank_index is the position)
rank_prefixes == <<"d__", "p__", "c__", "o__", "f__", "g__", "s__">>

rank_index(prefix) == CHOOSE i \in DOMAIN rank_prefixes : rank_prefixes[i] = prefix

Taxon(prefix, name) == [prefix |-> prefix, name |-> name]

\* a gtdb classification: one taxon per rank (columns gtdb_domain .. gtdb_species)
Lineage(p, c) ==
    [i \in DOMAIN rank_prefixes |->
        IF i = 2 THEN Taxon("p__", p)
        ELSE IF i = 3 THEN Taxon("c__", c)
        ELSE Taxon(rank_prefixes[i], "U")]

\* the chosen markers in display order, with their expected sizes
Markers == <<[id |-> 1, size |-> 2], [id |-> 2, size |-> 2]>>

marker_ids == {Markers[i].id : i \in DOMAIN Markers}

\* a row of aligned_markers
Row(seq, multi, evalue) == [sequence |-> seq, multiple_hits |-> multi, evalue |-> evalue]

\* What the database holds on one genome: its metadata_genes row
\* <<checkm_completeness, checkm_contamination>>, its metadata_taxonomy row and
\* its aligned_markers rows (marker id -> row).
GenomeRecord(quality, lineage, aligned) ==
    [quality |-> quality, lineage |-> lineage, aligned |-> aligned]

GenomeRecords ==
    { GenomeRecord(<<95, 3>>, Lineage("A", "X"),
                   (1 :> Row(<<"A", "C">>, FALSE, TRUE)) @@ (2 :> Row(<<"C", "A">>, FALSE, TRUE))),
      GenomeRecord(<<95, 3>>, Lineage("A", "Y"),
                   (1 :> Row(<<"A", "-">>, FALSE, TRUE))),
      GenomeRecord(<<40, 3>>, Lineage("A", "Y"), <<>>),
      GenomeRecord(<<95, 3>>, Lineage("A", "X"),
                   (1 :> Row(<<".", ".">>, FALSE, TRUE)) @@ (2 :> Row(<<"A", ".">>, FALSE, TRUE))),
      GenomeRecord(<<60, 8>>, Lineage("B", "Z"),
                   (1 :> Row(<<"A", "-">>, FALSE, TRUE))),
      GenomeRecord(<<95, 12>>, Lineage("A", "Y"),
                   (1 :> Row(<<"A", "C">>, TRUE, TRUE)) @@ (2 :> Row(<<"-", "-">>, FALSE, TRUE))) }

Database(rec) ==
    [metadata_genes    |-> [g \in Genomes |-> rec[g].quality],
     metadata_taxonomy |-> [g \in Genomes |-> rec[g].lineage],
     aligned_markers   |-> [g \in Genomes |-> rec[g].aligned]]

\* the taxa filter strings offered ("" is the empty set)
TaxaFilters ==
    { {},
      {Taxon("p__", "A"), Taxon("c__", "X")},
      {Taxon("x__", "Q"), Taxon("p__", "A")} }

GuaranteedTaxaFilters == { {}, {Taxon("c__", "X")} }

\* <<min_perc_aa, min_rep_perc_aa>>
CoverageThresholds == {<<0, 0>>, <<50, 0>>, <<50, 10>>}

\* <<quality_threshold, quality_weight, comp_threshold, cont_threshold>>
QualityThresholds == {<<25, 5, 50, 10>>}

GenomeIdSets == SUBSET Genomes \ {{}}

ExclusionLists == {x \in SUBSET Genomes : Cardinality(x) <= 1}


\* the external id GenomeManager.genomeIdsToExternalGenomeIds gives a db id
ExternalId(g) == <<"U", g>>

-----------------------------------------------------------------------------
(* _genomesFromTaxa, lines 656-699 *)

\* line 676: the taxa whose first three characters are no rank prefix
InvalidTaxa(taxa) == {t \in taxa : t.prefix \notin Range(rank_prefixes)}

\* lines 672-681: the requested taxa grouped by rank
taxa_to_retain_at_rank(taxa) ==
    [i \in DOMAIN rank_prefixes |-> {t \in taxa : rank_index(t.prefix) = i}]

\* lines 685-688: the ranks that contribute a 'gtdb_<rank> IN %s' term
RequestedRanks(taxa) ==
    {i \in DOMAIN rank_prefixes : taxa_to_retain_at_rank(taxa)[i] # {}}

\* one term of the query: gtdb_<rank i> IN taxa_to_retain_at_rank[i]
RankTerm(d, g, taxa, i) == d.metadata_taxonomy[g][i] \in taxa_to_retain_at_rank(taxa)[i]

\* a variant of the query that joins the rank terms with AND
TaxaQueryAllRanks(d, gids, taxa) ==
    {g \in DOMAIN d.metadata_taxonomy :
        g \in gids /\ \A i \in RequestedRanks(taxa) : RankTerm(d, g, taxa, i)}

\* lines 689-697: "WHERE id IN %s AND " + ' OR '.join(terms); in SQL AND binds
\* tighter than OR, so only the first term is conjoined with id IN genome_ids
TaxaQuery(d, gids, taxa) ==
    LET ranks == RequestedRanks(taxa)
        first == CHOOSE i \in ranks : \A j \in ranks : i <= j
    IN {g \in DOMAIN d.metadata_taxonomy :
            \/ g \in gids /\ RankTerm(d, g, taxa, first)
            \/ \E i \in ranks \ {first} : RankTerm(d, g, taxa, i)}

genomesFromTaxa(d, gids, taxa) ==
    IF InvalidTaxa(taxa) # {}
    THEN [status |-> "SystemExit"]                      \* line 678, sys.exit(0)
    ELSE [status |-> "ok", ids |-> TaxaQuery(d, gids, taxa)]

-----------------------------------------------------------------------------
(* _taxa_filter, lines 52-73 *)

\* a variant that forgets to intersect the query result with genome_ids
TaxaRetainedUnrestricted(gids, from_taxa, guaranteed, retain_guaranteed) ==
    IF retain_guaranteed THEN from_taxa \cup guaranteed ELSE from_taxa

\* lines 65 and 67
TaxaRetained(gids, from_taxa, guaranteed, retain_guaranteed) ==
    IF retain_guaranteed
    THEN (gids \cap from_taxa) \cup guaranteed
    ELSE gids \cap from_taxa

\* lines 59-63
TaxaWarnings(from_taxa, guaranteed, retain_guaranteed) ==
    IF retain_guaranteed /\ guaranteed \ from_taxa # {}
    THEN <<Warning("Retaining guaranteed genomes from taxa not specified by the taxa filter",
                   Cardinality(guaranteed \ from_taxa))>>
    ELSE <<>>

taxa_filter(d, taxa, gids, guaranteed, is_list, retain_guaranteed) ==
    LET r == genomesFromTaxa(d, gids, taxa)
    IN IF r.status # "ok" THEN r
       ELSE IF is_list
       THEN [status |-> "TypeError", from_taxa |-> r.ids]   \* line 59: list - set
       ELSE [status |-> "ok", from_taxa |-> r.ids,
             ids |-> TaxaRetained(gids, r.ids, guaranteed, retain_guaranteed),
             warnings |-> TaxaWarnings(r.ids, guaranteed, retain_guaranteed)]

-----------------------------------------------------------------------------
(* _filterOnGenomeQuality, lines 624-654, and the rescue loop, lines 171-187 *)

\* a variant of the WHERE clause that leaves the weight out of the quality score
FailsQualityUnweighted(row, a) ==
    \/ row[1] < a.comp_threshold
    \/ row[2] > a.cont_threshold
    \/ (row[1] - row[2]) < a.quality_threshold

\* the WHERE clause of lines 649-651
FailsQuality(row, a) ==
    \/ row[1] < a.comp_threshold
    \/ row[2] > a.cont_threshold
    \/ (row[1] - a.quality_weight * row[2]) < a.quality_threshold

filterOnGenomeQuality(d, gids, a) ==
    {g \in DOMAIN d.metadata_genes : g \in gids /\ FailsQuality(d.metadata_genes[g], a)}

\* lines 174-176: the failing representatives the loop warns about
quality_rescued_reps(d, retain, guaranteed, a) ==
    {g \in filterOnGenomeQuality(d, retain, a) :
        g \notin guaranteed /\ g \in a.rep_ids}

\* lines 172-178
final_filtered_genomes(d, retain, guaranteed, a) ==
    {g \in filterOnGenomeQuality(d, retain, a) :
        g \notin guaranteed /\ g \notin a.rep_ids}

-----------------------------------------------------------------------------
(* coverage, lines 205-253 *)

total_alignment_len == SeqSum([i \in DOMAIN Markers |-> Markers[i].size])

\* line 221: len(sequence) - sequence.count('-')
CountAA(seq) == Len(seq) - Cardinality({i \in DOMAIN seq : seq[i] = "-"})

\* lines 218-221: the rows of the genome for the chosen markers
total_aa(d, g) ==
    LET rows == d.aligned_markers[g]
        ms == SetToSeq(DOMAIN rows \cap marker_ids)
    IN SeqSum([k \in DOMAIN ms |->
                  IF rows[ms[k]].multiple_hits THEN 0
                  ELSE CountAA(rows[ms[k]].sequence)])

\* lines 224-226: a guaranteed genome with amino acids is kept outright
KeptAsGuaranteed(d, g, guaranteed) == g \in guaranteed /\ total_aa(d, g) # 0

\* a variant that drops every guaranteed genome without amino acids at line 228
FilteredOnAAZeroGuaranteed(d, g, guaranteed, a) ==
    LET perc100 == total_aa(d, g) * 100
    IN \/ g \in guaranteed /\ total_aa(d, g) = 0
       \/ /\ g \notin guaranteed
          /\ perc100 < a.min_perc_aa * total_alignment_len
          /\ (g \in a.rep_ids => perc100 < a.min_rep_perc_aa * total_alignment_len)

\* lines 230-241, perc_alignment = total_aa * 100.0 / total_alignment_len
FilteredOnAA(d, g, guaranteed, a) ==
    LET perc100 == total_aa(d, g) * 100
    IN /\ ~KeptAsGuaranteed(d, g, guaranteed)
       /\ perc100 < a.min_perc_aa * total_alignment_len
       /\ (g \in a.rep_ids => perc100 < a.min_rep_perc_aa * total_alignment_len)

\* lines 228, 236 and 238: the warning the loop gives on one genome, if any
coverage_warning(d, g, guaranteed, a, ext) ==
    LET perc100 == total_aa(d, g) * 100
        zero == IF g \in guaranteed /\ total_aa(d, g) = 0
                THEN <<Warning("Filtered guaranteed genome with zero amino acids in MSA", ext[g])>>
                ELSE <<>>
        rep == IF g \in a.rep_ids /\ perc100 < a.min_perc_aa * total_alignment_len
               THEN IF perc100 < a.min_rep_perc_aa * total_alignment_len
                    THEN <<Warning("Filtered representative genome due to lack of aligned amino acids",
                                   ext[g])>>
                    ELSE <<Warning("Retaining representative genome despite small numbers of aligned amino acids",
                                   ext[g])>>
               ELSE <<>>
    IN IF KeptAsGuaranteed(d, g, guaranteed) THEN <<>> ELSE zero \o rep

RECURSIVE coverage_warnings(_, _, _, _, _)
coverage_warnings(d, ids, guaranteed, a, ext) ==
    IF ids = <<>> THEN <<>>
    ELSE coverage_warning(d, Head(ids), guaranteed, a, ext)
            \o coverage_warnings(d, Tail(ids), guaranteed, a, ext)

\* a variant that gives a representative no second, lower bar
filter_on_aa_one_bar(d, retain, guaranteed, a) ==
    {g \in retain : /\ ~KeptAsGuaranteed(d, g, guaranteed)
                    /\ total_aa(d, g) * 100 < a.min_perc_aa * total_alignment_len}

filter_on_aa(d, retain, guaranteed, a) ==
    {g \in retain : FilteredOnAA(d, g, guaranteed, a)}

-----------------------------------------------------------------------------
(* _trim_seqs, lines 559-622.  seqs is a dict seq_id -> sequence; the three  *)
(* thresholds are fractions in [0,1], held as percentages: writeFiles passes *)
(* min_perc_taxa / 100.0, consensus / 100.0 and min_perc_aa / 100.0.         *)

Percent == 100

\* line 587: the characters that are not counted as residues
IsGap(ch) == ch = "." \/ ch = "-"

\* line 580: len(seqs.values()[0]); the sequences of an alignment are equally long
alignment_length(seqs) == Len(seqs[CHOOSE k \in DOMAIN seqs : TRUE])

\* lines 583-589
column_count(seqs, i) == Cardinality({k \in DOMAIN seqs : ~IsGap(seqs[k][i])})

\* lines 596-600: the count of c.most_common(1), 0 when the Counter is empty
MostCommonCount(seqs, i) ==
    LET chars == {seqs[k][i] : k \in {k \in DOMAIN seqs : ~IsGap(seqs[k][i])}}
        n(ch) == Cardinality({k \in DOMAIN seqs : seqs[k][i] = ch})
    IN IF chars = {} THEN 0
       ELSE LET top == CHOOSE ch \in chars : \A o \in chars : n(o) <= n(ch)
            IN n(top)

\* line 595: count >= min_per_taxa * len(seqs)
EnoughTaxa(seqs, i, min_per_taxa) ==
    column_count(seqs, i) * Percent >= min_per_taxa * Cardinality(DOMAIN seqs)

\* a variant without the ratio = 0 case of line 598
EnoughConsensusNoEmptyCase(seqs, i, consensus) ==
    MostCommonCount(seqs, i) * Percent >= consensus * column_count(seqs, i)

\* lines 597-602: ratio >= consensus, ratio = 0 for a column without residues
EnoughConsensus(seqs, i, consensus) ==
    IF column_count(seqs, i) = 0
    THEN 0 >= consensus
    ELSE MostCommonCount(seqs, i) * Percent >= consensus * column_count(seqs, i)

\* lines 591-607
Mask(seqs, min_per_taxa, consensus) ==
    [i \in 1..alignment_length(seqs) |->
        EnoughTaxa(seqs, i, min_per_taxa) /\ EnoughConsensus(seqs, i, consensus)]

CountWrongPa(seqs, min_per_taxa) ==
    Cardinality({i \in 1..alignment_length(seqs) : ~EnoughTaxa(seqs, i, min_per_taxa)})

\* a variant that counts a consensus failure outside the occupancy test
CountWrongConsEveryColumn(seqs, min_per_taxa, consensus) ==
    Cardinality({i \in 1..alignment_length(seqs) : ~EnoughConsensus(seqs, i, consensus)})

CountWrongCons(seqs, min_per_taxa, consensus) ==
    Cardinality({i \in 1..alignment_length(seqs) :
                    EnoughTaxa(seqs, i, min_per_taxa) /\ ~EnoughConsensus(seqs, i, consensus)})

\* line 613: ''.join([seq[i] for i in xrange(0, len(mask)) if mask[i]])
RECURSIVE MaskedFrom(_, _, _)
MaskedFrom(seq, mask, i) ==
    IF i > Len(mask) THEN <<>>
    ELSE (IF mask[i] THEN <<seq[i]>> ELSE <<>>) \o MaskedFrom(seq, mask, i + 1)

\* a variant that keeps the columns the mask rejects
masked_seq_inverted(seq, mask) == MaskedFrom(seq, [i \in DOMAIN mask |-> ~mask[i]], 1)

masked_seq(seq, mask) == MaskedFrom(seq, mask, 1)

\* line 615
valid_bases(masked) == Len(masked) - Cardinality({i \in DOMAIN masked : IsGap(masked[i])})

\* a variant that also prunes a sequence exactly at the bar
IsPrunedAtBar(masked, min_per_bp) == valid_bases(masked) * Percent <= Len(masked) * min_per_bp

\* line 616: valid_bases < len(masked_seq) * min_per_bp
IsPruned(masked, min_per_bp) == valid_bases(masked) * Percent < Len(masked) * min_per_bp

Restrict(f, S) == [k \in S |-> f[k]]

trim_seqs(seqs, min_per_taxa, consensus, min_per_bp) ==
    IF DOMAIN seqs = {}
    THEN [fault |-> "IndexError"]                       \* line 580 on an empty dict
    ELSE LET mask == Mask(seqs, min_per_taxa, consensus)
             masked == [k \in DOMAIN seqs |-> masked_seq(seqs[k], mask)]
             pruned == {k \in DOMAIN seqs : IsPruned(masked[k], min_per_bp)}
         IN [fault            |-> "none",
             output_seqs      |-> Restrict(masked, DOMAIN seqs \ pruned),
             pruned_seqs      |-> Restrict(masked, pruned),
             count_wrong_pa   |-> CountWrongPa(seqs, min_per_taxa),
             count_wrong_cons |-> CountWrongCons(seqs, min_per_taxa, consensus),
             mask             |-> mask]

-----------------------------------------------------------------------------
(* filterGenomes, lines 75-263 *)

Line(ext, reason, rep_str) == [id |-> ext, reason |-> reason, rep |-> rep_str]

rep_str(g, a) == IF g \in a.rep_ids THEN "Representative" ELSE ""

\* the lines one loop over the set S writes to the report
LinesFor(S, L(_)) == LET ids == SetToSeq(S) IN [k \in DOMAIN ids |-> L(ids[k])]

Write(f, lines) == [f EXCEPT !.lines = @ \o lines]

Raise(type) ==
    /\ pc' = "raised"
    /\ error' = [type |-> type]

stageFrame == <<args, db, external_ids, guaranteed_ids, guaranteed_is_list>>

\* the caller's set follows an in-place update made through the alias
InPlace(new) ==
    /\ genomes_to_retain' = new
    /\ genome_ids' = IF aliased THEN new ELSE genome_ids
    /\ UNCHANGED aliased

\* genomes_to_retain is bound to a new set object
Rebind(new) ==
    /\ genomes_to_retain' = new
    /\ aliased' = FALSE
    /\ UNCHANGED genome_ids

\* lines 101-136
Begin ==
    /\ UNCHANGED <<trim, wf>>
    /\ pc = "start"
    /\ external_ids' = [g \in genome_ids |-> ExternalId(g)]
    /\ fout_filtered' = [state |-> "open", lines |-> <<>>]
    /\ LET extra_guaranteed_ids == guaranteed_ids \ genome_ids
       IN IF extra_guaranteed_ids # {}
          THEN /\ guaranteed_ids' = guaranteed_ids \cap genome_ids
               /\ guaranteed_is_list' = TRUE
               /\ logger' = Append(logger, Warning("guaranteed genomes absent from input",
                                                   Cardinality(extra_guaranteed_ids)))
          ELSE UNCHANGED <<guaranteed_ids, guaranteed_is_list, logger>>
    /\ genomes_to_retain' = genome_ids
    /\ aliased' = TRUE
    /\ entered' = genome_ids
    /\ pc' = "taxa"
    /\ UNCHANGED <<error, genome_ids, args, db, genome_ids_from_taxa>>

\* one call of _taxa_filter with the report loop after it (lines 137-146, 148-157)
TaxaStage(taxa, retain_guaranteed, reason, next) ==
    /\ entered' = genomes_to_retain
    /\ UNCHANGED stageFrame
    /\ IF taxa = {}
       THEN /\ pc' = next
            /\ UNCHANGED <<error, genome_ids, genomes_to_retain, aliased, fout_filtered,
                           genome_ids_from_taxa, logger>>
       ELSE LET r == taxa_filter(db, taxa, genomes_to_retain, guaranteed_ids,
                                 guaranteed_is_list, retain_guaranteed)
                L(g) == Line(external_ids[g], reason, rep_str(g, args))
            IN IF r.status # "ok"
               THEN /\ Raise(r.status)
                    /\ genome_ids_from_taxa' =
                          IF r.status = "TypeError" THEN r.from_taxa ELSE genome_ids_from_taxa
                    /\ UNCHANGED <<genome_ids, genomes_to_retain, aliased, fout_filtered,
                                   logger>>
               ELSE /\ genome_ids_from_taxa' = r.from_taxa
                    /\ logger' = logger \o r.warnings
                    /\ fout_filtered' = Write(fout_filtered,
                                              LinesFor(genomes_to_retain \ r.ids, L))
                    /\ Rebind(r.ids)
                    /\ pc' = next
                    /\ UNCHANGED error

TaxaFilterStage ==
    /\ UNCHANGED <<trim, wf>>
    /\ pc = "taxa"
    /\ TaxaStage(args.taxa_filter, TRUE, "Filtered on taxonomic affiliation.", "gtaxa")

GuaranteedTaxaFilterStage ==
    /\ UNCHANGED <<trim, wf>>
    /\ pc = "gtaxa"
    /\ TaxaStage(args.guaranteed_taxa_filter, FALSE,
                 "Filtered on guaranteed taxonomic affiliation.", "quality")

\* lines 159-187
QualityStage ==
    /\ UNCHANGED <<trim, wf>>
    /\ pc = "quality"
    /\ entered' = genomes_to_retain
    /\ LET removed == final_filtered_genomes(db, genomes_to_retain, guaranteed_ids, args)
           L(g) == [id |-> external_ids[g],
                    reason |-> "Filtered on quality (completeness, contamination).",
                    quality |-> db.metadata_genes[g]]
           W(g) == Warning("Retaining representative genome despite poor estimated quality",
                           external_ids[g])
       IN /\ fout_filtered' = Write(fout_filtered, LinesFor(removed, L))
          /\ logger' = logger \o LinesFor(quality_rescued_reps(db, genomes_to_retain,
                                                               guaranteed_ids, args), W)
          /\ InPlace(genomes_to_retain \ removed)
    /\ pc' = "exclude"
    /\ UNCHANGED <<error, stageFrame, genome_ids_from_taxa>>

\* lines 189-203
ExclusionStage ==
    /\ UNCHANGED <<trim, wf>>
    /\ pc = "exclude"
    /\ entered' = genomes_to_retain
    /\ UNCHANGED <<stageFrame, genome_ids_from_taxa, logger>>
    /\ IF args.genomes_to_exclude = {}
       THEN /\ pc' = "coverage"
            /\ UNCHANGED <<error, genome_ids, genomes_to_retain, aliased, fout_filtered>>
       ELSE LET L(g) == [id |-> external_ids[g], reason |-> "Explicitly marked for exclusion."]
                conflicting_genomes == guaranteed_ids \cap args.genomes_to_exclude
            IN /\ fout_filtered' =
                      Write(fout_filtered,
                            LinesFor(args.genomes_to_exclude \cap DOMAIN external_ids, L))
               /\ IF guaranteed_is_list
                  THEN /\ Raise("AttributeError")       \* line 195: list.intersection
                       /\ UNCHANGED <<genome_ids, genomes_to_retain, aliased>>
                  ELSE IF conflicting_genomes # {}
                  THEN /\ \E g \in conflicting_genomes :            \* line 198, pop()
                            /\ pc' = "raised"
                            /\ error' = [type |-> "GenomeDatabaseError", id |-> g]
                       /\ UNCHANGED <<genome_ids, genomes_to_retain, aliased>>
                  ELSE /\ Rebind(genomes_to_retain \ args.genomes_to_exclude)
                       /\ pc' = "coverage"
                       /\ UNCHANGED error

\* lines 205-263
CoverageStage ==
    /\ UNCHANGED <<trim, wf>>
    /\ pc = "coverage"
    /\ entered' = genomes_to_retain
    /\ LET removed == filter_on_aa(db, genomes_to_retain, guaranteed_ids, args)
           L(g) == [id |-> external_ids[g],
                    reason |-> "Insufficient number of amino acids in MSA (total AA, % alignment length)",
                    total_aa |-> total_aa(db, g),
                    rep |-> rep_str(g, args)]
       IN /\ fout_filtered' = [state |-> "closed",
                               lines |-> fout_filtered.lines \o LinesFor(removed, L)]
          /\ logger' = logger \o coverage_warnings(db, SetToSeq(genomes_to_retain),
                                                    guaranteed_ids, args, external_ids)
          /\ InPlace(genomes_to_retain \ removed)
    /\ pc' = "done"
    /\ UNCHANGED <<error, stageFrame, genome_ids_from_taxa>>

-----------------------------------------------------------------------------
(* filterGenomes as a function of its arguments and the database: what the   *)
(* call returns (lines 75-263 run from the first line to the last).          *)

filterGenomes(d, gids, a) ==
    LET is_list == a.guaranteed_ids \ gids # {}                       \* lines 112-115
        guaranteed == IF is_list THEN a.guaranteed_ids \cap gids ELSE a.guaranteed_ids
        t1 == IF a.taxa_filter = {}                                   \* lines 137-146
              THEN [status |-> "ok", ids |-> gids]
              ELSE taxa_filter(d, a.taxa_filter, gids, guaranteed, is_list, TRUE)
        t2 == IF a.guaranteed_taxa_filter = {}                        \* lines 148-157
              THEN [status |-> "ok", ids |-> t1.ids]
              ELSE taxa_filter(d, a.guaranteed_taxa_filter, t1.ids, guaranteed, is_list, FALSE)
        q == t2.ids \ final_filtered_genomes(d, t2.ids, guaranteed, a) \* lines 165-187
        x == IF a.genomes_to_exclude = {} THEN "ok"                   \* lines 190-203
             ELSE IF is_list THEN "AttributeError"
             ELSE IF guaranteed \cap a.genomes_to_exclude # {} THEN "GenomeDatabaseError"
             ELSE "ok"
        e == q \ a.genomes_to_exclude
    IN IF t1.status # "ok" THEN [status |-> t1.status]
       ELSE IF t2.status # "ok" THEN [status |-> t2.status]
       ELSE IF x # "ok" THEN [status |-> x]
       ELSE [status |-> "done",
             retained |-> e \ filter_on_aa(d, e, guaranteed, a)]      \* lines 208-253

-----------------------------------------------------------------------------
(* The call filterGenomes(...) on drawn arguments and a drawn database *)

Init ==
    /\ pc = "start"
    /\ error = NoError
    /\ genome_ids \in GenomeIdSets
    /\ \E gu \in SUBSET Genomes, rp \in SUBSET Genomes, ex \in ExclusionLists,
          tf \in TaxaFilters, gtf \in GuaranteedTaxaFilters,
          q \in QualityThresholds, c \in CoverageThresholds :
            /\ args = [guaranteed_ids |-> gu, rep_ids |-> rp, genomes_to_exclude |-> ex,
                       taxa_filter |-> tf, guaranteed_taxa_filter |-> gtf,
                       quality_threshold |-> q[1], quality_weight |-> q[2],
                       comp_threshold |-> q[3], cont_threshold |-> q[4],
                       min_perc_aa |-> c[1], min_rep_perc_aa |-> c[2]]
            /\ guaranteed_ids = gu
    /\ \E rec \in [Genomes -> GenomeRecords] : db = Database(rec)
    /\ external_ids = <<>>
    /\ guaranteed_is_list = FALSE
    /\ genome_ids_from_taxa = {}
    /\ genomes_to_retain = {}
    /\ aliased = FALSE
    /\ entered = {}
    /\ fout_filtered = [state |-> "unopened", lines |-> <<>>]
    /\ logger = <<>>
    /\ trim = [pc |-> "idle"]
    /\ wf = [pc |-> "idle"]

Next ==
    \/ Begin
    \/ TaxaFilterStage
    \/ GuaranteedTaxaFilterStage
    \/ QualityStage
    \/ ExclusionStage
    \/ CoverageStage

Spec == Init /\ [][Next]_vars

-----------------------------------------------------------------------------
(* Properties of filterGenomes *)

\* the genome_ids the call was given
Input == DOMAIN external_ids

Ended == pc \in {"done", "raised"}

\* C1: at every point of a run, the retained set is a subset of the set that
\* entered the stage just run, which is a subset of the input genome_ids; a
\* guaranteed id that is not in genome_ids is never in the retained set.
SetMonotonicity ==
    pc \notin {"idle", "start"} =>
        /\ genomes_to_retain \subseteq entered
        /\ entered \subseteq Input
        /\ genomes_to_retain \cap (args.guaranteed_ids \ Input) = {}

\* a completed run whose guaranteed_ids held an id absent from genome_ids
SetMonotonicityWitness ==
    /\ pc = "done"
    /\ args.guaranteed_ids \ Input # {}
    /\ args.guaranteed_ids \cap Input # {}
    /\ genomes_to_retain # {}

\* the quality test as the specification words it
FailsQualityTest(g) ==
    \/ db.metadata_genes[g][1] < args.comp_threshold
    \/ db.metadata_genes[g][2] > args.cont_threshold
    \/ db.metadata_genes[g][1] - args.quality_weight * db.metadata_genes[g][2]
          < args.quality_threshold

\* C2: the quality stage removes exactly the genomes that fail the quality test
\* and are neither representative nor guaranteed; a failing representative is
\* still in the stage's output.
QualityRescue ==
    pc = "exclude" =>
        LET failing == {g \in entered : FailsQualityTest(g)}
        IN /\ genomes_to_retain =
                 entered \ {g \in failing : g \notin args.rep_ids /\ g \notin args.guaranteed_ids}
           /\ \A g \in failing \cap args.rep_ids : g \in genomes_to_retain

\* the quality stage kept a failing representative and removed another genome
QualityRescueWitness ==
    /\ pc = "exclude"
    /\ \E g \in entered \cap args.rep_ids :
          FailsQualityTest(g) /\ g \notin args.guaranteed_ids /\ g \in genomes_to_retain
    /\ entered \ genomes_to_retain # {}

\* C3: a run whose exclusion list and guaranteed set share an id ends with the
\* GenomeDatabaseError naming a shared id (runs aborted by an unrecognized
\* taxon prefix set aside).
ConflictAlwaysRaised ==
    (Ended /\ args.guaranteed_ids \cap args.genomes_to_exclude # {}
           /\ error.type # "SystemExit") =>
        /\ pc = "raised"
        /\ error.type = "GenomeDatabaseError"
        /\ error.id \in args.guaranteed_ids \cap args.genomes_to_exclude

\* the call of _genomesFromTaxa whose result genome_ids_from_taxa holds
TaxaCallReturned ==
    \/ pc = "gtaxa" /\ args.taxa_filter # {}
    \/ pc = "quality" /\ args.guaranteed_taxa_filter # {}

LastTaxa == IF pc = "gtaxa" THEN args.taxa_filter ELSE args.guaranteed_taxa_filter

RequestedAt(i) == {t \in LastTaxa : t.prefix = rank_prefixes[i]}

RanksRequested == {i \in DOMAIN rank_prefixes : RequestedAt(i) # {}}

MatchesAt(g, i) == db.metadata_taxonomy[g][i] \in RequestedAt(i)

\* C6 as stated: a genome is selected iff it matches at every requested rank.
TaxaMatchEveryRank ==
    TaxaCallReturned =>
        \A g \in entered :
            g \in genome_ids_from_taxa <=> \A i \in RanksRequested : MatchesAt(g, i)

\* C6 amended: a genome of genome_ids is selected iff it matches at one
\* requested rank at least (OR across ranks as within a rank).
TaxaMatchSomeRank ==
    TaxaCallReturned =>
        \A g \in entered :
            g \in genome_ids_from_taxa <=> \E i \in RanksRequested : MatchesAt(g, i)

\* a genome that matches at one requested rank and not at another was selected,
\* and a genome that matches at none was not
TaxaMatchSomeRankWitness ==
    /\ TaxaCallReturned
    /\ \E g \in entered \cap genome_ids_from_taxa :
          \E i, j \in RanksRequested : MatchesAt(g, i) /\ ~MatchesAt(g, j)
    /\ entered \ genome_ids_from_taxa # {}

\* C7: a guaranteed genome that reaches the coverage stage with total_aa = 0 is
\* not in the retained set the run returns (shown for min_perc_aa > 0).
GuaranteedZeroAARemoved ==
    (pc = "done" /\ args.min_perc_aa > 0) =>
        \A g \in entered \cap args.guaranteed_ids :
            total_aa(db, g) = 0 => g \notin genomes_to_retain

\* the arguments with g additionally marked
Marked(a, g, kind) ==
    IF kind = "representative"
    THEN [a EXCEPT !.rep_ids = @ \cup {g}]
    ELSE [a EXCEPT !.guaranteed_ids = @ \cup {g}]

ReportClosedOnExit == Ended => fout_filtered.state = "closed"

\* the coverage test percAlignment < minPercAA, on the total_aa the stage computed
FailsCoverageTest(g) == total_aa(db, g) * 100 < args.min_perc_aa * total_alignment_len

\* the lines of the filter report and the warnings that name genome g
ReportLinesOf(g) ==
    {k \in DOMAIN fout_filtered.lines : fout_filtered.lines[k].id = external_ids[g]}

WarningsOf(g) == {k \in DOMAIN logger : logger[k].about = external_ids[g]}

\* C11: after a completed run, every retained genome that failed the quality
\* test or the coverage test and was kept as a representative or a guaranteed
\* genome has a warning in the log and a record in the filter report.
RetainedDespiteRecorded ==
    pc = "done" =>
        \A g \in genomes_to_retain :
            ((FailsQualityTest(g) \/ FailsCoverageTest(g))
                /\ g \in args.rep_ids \cup args.guaranteed_ids) =>
                /\ WarningsOf(g) # {}
                /\ ReportLinesOf(g) # {}

\* percAlignment < minRepPercAA
BelowRepBar(g) == total_aa(db, g) * 100 < args.min_rep_perc_aa * total_alignment_len

\* C12: the coverage stage keeps every guaranteed genome with total_aa # 0,
\* removes a genome that is neither guaranteed nor representative iff
\* percAlignment < minPercAA, and removes a representative that is not
\* guaranteed iff percAlignment is below both minPercAA and minRepPercAA.
CoverageRule ==
    pc = "done" =>
        \A g \in entered :
            /\ (g \in args.guaranteed_ids /\ total_aa(db, g) # 0) => g \in genomes_to_retain
            /\ (g \notin args.guaranteed_ids /\ g \notin args.rep_ids) =>
                  (g \notin genomes_to_retain <=> FailsCoverageTest(g))
            /\ (g \notin args.guaranteed_ids /\ g \in args.rep_ids) =>
                  (g \notin genomes_to_retain <=> (FailsCoverageTest(g) /\ BelowRepBar(g)))

\* a representative below minPercAA but not below minRepPercAA was retained
\* while a genome of the same coverage that is no representative was removed
CoverageRuleWitness ==
    /\ pc = "done"
    /\ \E g, h \in entered :
          /\ g \in args.rep_ids \ args.guaranteed_ids
          /\ h \notin args.rep_ids \cup args.guaranteed_ids
          /\ total_aa(db, g) = total_aa(db, h)
          /\ FailsCoverageTest(g) /\ ~BelowRepBar(g)
          /\ g \in genomes_to_retain
          /\ h \notin genomes_to_retain

-----------------------------------------------------------------------------
(* Calls of _trim_seqs on drawn alignments, and a second call on what the    *)
(* first returned.                                                           *)

MaxLen == 3

SeqIds == {1, 2}

ResidueChars == {"A", "C"}

GapChars == {"-", "."}

\* the strings of length n over the residues and one gap character
Strings(n, gap) == [1..n -> ResidueChars \cup {gap}]

\* the alignments: any number of sequences, all of one length
Alignments ==
    UNION {[ids -> Strings(n, gap)] : ids \in SUBSET SeqIds, n \in 1..MaxLen, gap \in GapChars}

MinPerTaxa == {0, 50, 100}
Consensus == {0, 50, 100}
MinPerBp == {0, 50}

NoCall == [fault |-> "not called"]

\* two alignments of five columns: three genomes, and the same three with a
\* fourth genome that has no residue; both are trimmed with min_per_taxa 0.6
\* and consensus 0.5
ThreeGenomes ==
    (1 :> <<"A", "C", "-", "A", "T">>) @@ (2 :> <<"A", "C", "-", "T", "T">>)
        @@ (3 :> <<"-", "C", "G", "A", "T">>)

FourGenomes == ThreeGenomes @@ (4 :> <<"-", "-", "-", "-", "-">>)

GivenAlignments == {ThreeGenomes, FourGenomes}

\* <<min_per_taxa, consensus>> of those two calls, in percent
GivenThresholds == <<60, 50>>

\* trimmed_seqs.update(pruned_seqs), line 481: everything the call returned
AllTrimmed(r) == r.output_seqs @@ r.pruned_seqs

InitTrim ==
    /\ pc = "idle"
    /\ error = NoError
    /\ genome_ids = {}
    /\ args = <<>>
    /\ db = <<>>
    /\ external_ids = <<>>
    /\ guaranteed_ids = {}
    /\ guaranteed_is_list = FALSE
    /\ genome_ids_from_taxa = {}
    /\ genomes_to_retain = {}
    /\ aliased = FALSE
    /\ entered = {}
    /\ fout_filtered = [state |-> "unopened", lines |-> <<>>]
    /\ logger = <<>>
    /\ wf = [pc |-> "idle"]
    /\ \/ \E seqs \in Alignments, t \in MinPerTaxa, c \in Consensus, b \in MinPerBp :
             trim = [pc |-> "input", seqs |-> seqs, min_per_taxa |-> t, consensus |-> c,
                     min_per_bp |-> b, first |-> NoCall, again |-> NoCall]
       \/ \E seqs \in GivenAlignments, b \in MinPerBp :
             trim = [pc |-> "input", seqs |-> seqs, min_per_taxa |-> GivenThresholds[1],
                     consensus |-> GivenThresholds[2], min_per_bp |-> b,
                     first |-> NoCall, again |-> NoCall]

\* _trim_seqs(seqs, min_per_taxa, consensus, min_per_bp)
Trim ==
    /\ trim.pc = "input"
    /\ LET r == trim_seqs(trim.seqs, trim.min_per_taxa, trim.consensus, trim.min_per_bp)
       IN trim' = [trim EXCEPT !.first = r,
                               !.pc = IF r.fault = "none" THEN "trimmed" ELSE "fault"]
    /\ UNCHANGED <<filterVars, wf>>

\* the same call on the accepted sequences the first call returned
TrimAccepted ==
    /\ trim.pc = "trimmed"
    /\ LET r == trim_seqs(trim.first.output_seqs, trim.min_per_taxa, trim.consensus,
                          trim.min_per_bp)
       IN trim' = [trim EXCEPT !.again = r, !.pc = "accepted again"]
    /\ UNCHANGED <<filterVars, wf>>

\* the same call on all the sequences the first call returned
TrimAll ==
    /\ trim.pc = "trimmed"
    /\ LET r == trim_seqs(AllTrimmed(trim.first), trim.min_per_taxa, trim.consensus,
                          trim.min_per_bp)
       IN trim' = [trim EXCEPT !.again = r, !.pc = "all again"]
    /\ UNCHANGED <<filterVars, wf>>

NextTrim ==
    \/ Trim
    \/ TrimAccepted
    \/ TrimAll

SpecTrim == InitTrim /\ [][NextTrim]_vars

-----------------------------------------------------------------------------
(* Properties of _trim_seqs *)

TrueCount(mask) == Cardinality({i \in DOMAIN mask : mask[i]})

AllTrue(mask) == \A i \in DOMAIN mask : mask[i]

FirstReturned == trim.pc \in {"trimmed", "accepted again", "all again"}

\* C4: the mask has one entry per column of the input, and each column is a
\* true entry, an occupancy failure or a consensus failure.
MaskLengthInvariant ==
    FirstReturned =>
        /\ \A k \in DOMAIN trim.seqs : Len(trim.first.mask) = Len(trim.seqs[k])
        /\ TrueCount(trim.first.mask) + trim.first.count_wrong_pa
              + trim.first.count_wrong_cons = Len(trim.first.mask)

\* a call that met a retained column, an occupancy failure and a consensus failure
MaskLengthWitness ==
    /\ FirstReturned
    /\ TrueCount(trim.first.mask) > 0
    /\ trim.first.count_wrong_pa > 0
    /\ trim.first.count_wrong_cons > 0

\* C5 as stated: the call repeated on the accepted sequences (when there are
\* any) returns an all-true mask, no failure counts, the same sequences and
\* prunes nothing.
TrimIdempotentOnAccepted ==
    (trim.pc = "accepted again" /\ DOMAIN trim.first.output_seqs # {}) =>
        /\ trim.again.fault = "none"
        /\ AllTrue(trim.again.mask)
        /\ trim.again.count_wrong_pa = 0
        /\ trim.again.count_wrong_cons = 0
        /\ trim.again.output_seqs = trim.first.output_seqs
        /\ DOMAIN trim.again.pruned_seqs = {}

\* C5 amended: the call repeated on all the sequences the first call returned
\* (accepted and pruned) returns an all-true mask, no failure counts, and the
\* same accepted and pruned sequences.
TrimIdempotentOnAll ==
    trim.pc = "all again" =>
        /\ trim.again.fault = "none"
        /\ AllTrue(trim.again.mask)
        /\ trim.again.count_wrong_pa = 0
        /\ trim.again.count_wrong_cons = 0
        /\ trim.again.output_seqs = trim.first.output_seqs
        /\ trim.again.pruned_seqs = trim.first.pruned_seqs

\* the second call ran on an alignment that lost columns and had a genome pruned
TrimIdempotentWitness ==
    /\ trim.pc = "all again"
    /\ trim.first.count_wrong_pa > 0
    /\ TrueCount(trim.first.mask) > 0
    /\ DOMAIN trim.first.pruned_seqs # {}
    /\ DOMAIN trim.first.output_seqs # {}

\* C8: when the mask keeps no column, every genome is in the pruned bucket and
\* none in the accepted one (shown for the positive values of min_per_bp).
DegenerateAllPruned ==
    (FirstReturned /\ TrueCount(trim.first.mask) = 0 /\ trim.min_per_bp > 0) =>
        /\ DOMAIN trim.first.output_seqs = {}
        /\ DOMAIN trim.first.pruned_seqs = DOMAIN trim.seqs

\* the genomes with a non-gap character at column i of the input
NonGapAt(i) == {k \in DOMAIN trim.seqs : trim.seqs[k][i] \notin {"-", "."}}

\* how often the most frequent non-gap character of column i occurs
MostFrequentAt(i) ==
    LET n(ch) == Cardinality({k \in NonGapAt(i) : trim.seqs[k][i] = ch})
        counts == {n(trim.seqs[k][i]) : k \in NonGapAt(i)}
    IN IF counts = {} THEN 0 ELSE CHOOSE c \in counts : \A o \in counts : o <= c

Columns == 1..Len(trim.first.mask)

\* occupancy(i) >= minTaxaFraction, over all the genomes passed to the trimmer
Candidate(i) ==
    Cardinality(NonGapAt(i)) * 100 >= trim.min_per_taxa * Cardinality(DOMAIN trim.seqs)

\* (count of the most frequent character) / (non-gap characters) >= consensusFraction
RatioReached(i) == MostFrequentAt(i) * 100 >= trim.consensus * Cardinality(NonGapAt(i))

\* the same, the ratio of a column without a non-gap character being 0
RatioReachedOrZero(i) ==
    IF NonGapAt(i) = {} THEN trim.consensus = 0 ELSE RatioReached(i)

\* the first alignment of five columns gives mask [T,T,F,T,T], counts 1 and 0
ThreeGenomesMasked ==
    trim.seqs = ThreeGenomes =>
        /\ trim.first.mask = <<TRUE, TRUE, FALSE, TRUE, TRUE>>
        /\ trim.first.count_wrong_pa = 1
        /\ trim.first.count_wrong_cons = 0
        /\ AllTrimmed(trim.first) =
              (1 :> <<"A", "C", "A", "T">>) @@ (2 :> <<"A", "C", "T", "T">>)
                  @@ (3 :> <<"-", "C", "A", "T">>)

\* C13 as stated: mask[i] is true iff column i reaches the occupancy and the
\* consensus ratio; an occupancy failure is counted only in count_wrong_pa and
\* a consensus failure of a candidate column only in count_wrong_cons.
ColumnMaskingRule ==
    FirstReturned =>
        /\ \A i \in Columns : trim.first.mask[i] <=> (Candidate(i) /\ RatioReached(i))
        /\ trim.first.count_wrong_pa = Cardinality({i \in Columns : ~Candidate(i)})
        /\ trim.first.count_wrong_cons =
              Cardinality({i \in Columns : Candidate(i) /\ ~RatioReached(i)})
        /\ ThreeGenomesMasked

\* C13 amended: the same rule, where the consensus ratio of a column with no
\* non-gap character is 0.
ColumnMaskingRuleRatioZero ==
    FirstReturned =>
        /\ \A i \in Columns : trim.first.mask[i] <=> (Candidate(i) /\ RatioReachedOrZero(i))
        /\ trim.first.count_wrong_pa = Cardinality({i \in Columns : ~Candidate(i)})
        /\ trim.first.count_wrong_cons =
              Cardinality({i \in Columns : Candidate(i) /\ ~RatioReachedOrZero(i)})
        /\ ThreeGenomesMasked

\* a call that met a candidate column without any non-gap character, which it
\* masked out as a consensus failure, next to a retained column
ColumnMaskingWitness ==
    /\ FirstReturned
    /\ \E i, j \in Columns :
          /\ NonGapAt(i) = {} /\ Candidate(i) /\ ~trim.first.mask[i]
          /\ trim.first.mask[j]
    /\ trim.first.count_wrong_cons = 1

\* the columns the mask keeps, in order, and a sequence restricted to them
KeptColumns == SetToSeq({i \in Columns : trim.first.mask[i]})

RestrictedToMask(seq) == [j \in 1..Len(KeptColumns) |-> seq[KeptColumns[j]]]

GapCount(seq) == Cardinality({j \in DOMAIN seq : seq[j] \in {"-", "."}})

\* accepted and pruned split the input genomes, each trimmed sequence is the
\* input restricted to the kept columns, and a genome with a trimmed sequence
\* of positive length is pruned iff its valid fraction is below min_per_bp
PruningRule ==
    LET accepted == trim.first.output_seqs
        pruned == trim.first.pruned_seqs
    IN /\ DOMAIN accepted \cup DOMAIN pruned = DOMAIN trim.seqs
       /\ DOMAIN accepted \cap DOMAIN pruned = {}
       /\ \A k \in DOMAIN trim.seqs :
             LET t == AllTrimmed(trim.first)[k]
             IN /\ t = RestrictedToMask(trim.seqs[k])
                /\ Len(t) = TrueCount(trim.first.mask)
                /\ Len(t) > 0 =>
                      (k \in DOMAIN pruned
                          <=> (Len(t) - GapCount(t)) * 100 < Len(t) * trim.min_per_bp)

\* C14 as stated: the pruning rule, and of the four genomes trimmed with
\* min_per_bp 0.5 the one without residues has the trimmed sequence "----" and
\* is pruned while the other three are accepted.
CompletenessPruning ==
    FirstReturned =>
        /\ PruningRule
        /\ (trim.seqs = FourGenomes /\ trim.min_per_bp = 50) =>
              /\ trim.first.pruned_seqs = (4 :> <<"-", "-", "-", "-">>)
              /\ DOMAIN trim.first.output_seqs = {1, 2, 3}

\* C14 amended: the pruning rule, and of the four genomes the one without
\* residues has the trimmed sequence "---" (with four genomes the first
\* column fails the occupancy too) and is pruned, the other three are accepted.
CompletenessPruningThreeColumns ==
    FirstReturned =>
        /\ PruningRule
        /\ (trim.seqs = FourGenomes /\ trim.min_per_bp = 50) =>
              /\ trim.first.mask = <<FALSE, TRUE, FALSE, TRUE, TRUE>>
              /\ trim.first.pruned_seqs = (4 :> <<"-", "-", "-">>)
              /\ trim.first.output_seqs =
                    (1 :> <<"C", "A", "T">>) @@ (2 :> <<"C", "T", "T">>)
                        @@ (3 :> <<"C", "A", "T">>)

\* the four genomes were trimmed with min_per_bp 0.5 and one was pruned
CompletenessPruningWitness ==
    /\ FirstReturned
    /\ trim.seqs = FourGenomes
    /\ trim.min_per_bp = 50
    /\ 4 \in DOMAIN trim.first.pruned_seqs

-----------------------------------------------------------------------------
(* writeFiles, lines 327-557, on a drawn retained set and drawn aligned_markers *)
(* rows.  A stored sequence that is concatenated has its marker's size.        *)

\* the rows aligned_markers may hold on one genome and one marker; a row with
\* sequence NULL is no row to the query of lines 400-406
RowOptions ==
    { Row(<<"A", "C">>, FALSE, TRUE),      \* a single hit
      Row(<<"A">>, TRUE, TRUE),            \* several hits
      Row(<<"C", "-">>, FALSE, FALSE),     \* no e-value
      Row(<<"C", "A">>, TRUE, FALSE) }     \* several hits, no e-value

\* the rows of one genome: marker id -> row, for any subset of the markers
GenomeRows == UNION {[ms -> RowOptions] : ms \in SUBSET marker_ids}

\* <<min_perc_taxa, consensus, min_perc_aa>>, in percent
WriteThresholds == {<<0, 0, 0>>, <<50, 0, 50>>, <<100, 0, 50>>}

\* a variant that pads a slot with one gap character
PaddingOneGap(size) == <<"-">>

\* line 447: chosen_markers[marker_id]['size'] * '-'
Padding(size) == [j \in 1..size |-> "-"]

\* lines 419-422: genome_info['markers'] holds the rows that have an e-value
InMarkers(rows, m) == m \in DOMAIN rows /\ rows[m].evalue

\* lines 428-436
Classification(rows, m) ==
    IF InMarkers(rows, m)
    THEN IF ~rows[m].multiple_hits THEN "Single" ELSE "Multiple"
    ELSE "Missing"

\* lines 438-454: what the marker adds to aligned_seq
Segment(rows, i) ==
    LET m == Markers[i].id
    IN IF InMarkers(rows, m) /\ ~rows[m].multiple_hits
       THEN rows[m].sequence
       ELSE Padding(Markers[i].size)

\* line 426 raises KeyError at the first marker the genome has no row for; the
\* markers before it have been handled
Handled(rows) ==
    LET absent == {i \in DOMAIN Markers : Markers[i].id \notin DOMAIN rows}
    IN IF absent = {} THEN Len(Markers)
       ELSE (CHOOSE i \in absent : \A j \in absent : i <= j) - 1

RECURSIVE Concatenated(_, _)
Concatenated(rows, n) ==
    IF n = 0 THEN <<>> ELSE Concatenated(rows, n - 1) \o Segment(rows, n)

\* the counters single_copy and ubiquitous after the first n markers of a genome
Counted(counter, rows, n, kinds) ==
    [m \in marker_ids |->
        counter[m] + (IF \E i \in 1..n : Markers[i].id = m /\ Classification(rows, m) \in kinds
                      THEN 1 ELSE 0)]

InitWrite ==
    /\ pc = "idle"
    /\ error = NoError
    /\ genome_ids = {}
    /\ args = <<>>
    /\ \E am \in [Genomes -> GenomeRows] : db = [aligned_markers |-> am]
    /\ external_ids = <<>>
    /\ guaranteed_ids = {}
    /\ guaranteed_is_list = FALSE
    /\ genome_ids_from_taxa = {}
    /\ genomes_to_retain = {}
    /\ aliased = FALSE
    /\ entered = {}
    /\ fout_filtered = [state |-> "unopened", lines |-> <<>>]
    /\ logger = <<>>
    /\ trim = [pc |-> "idle"]
    /\ \E retain \in GenomeIdSets, t \in WriteThresholds, alignment \in BOOLEAN :
          wf = [pc |-> "concatenate",
                genomes_to_retain |-> retain,
                min_perc_taxa |-> t[1], consensus |-> t[2], min_perc_aa |-> t[3],
                alignment |-> alignment,
                metadata |-> SetToSeq(retain),            \* lines 366-370
                next |-> 1,
                single_copy |-> [m \in marker_ids |-> 0],
                ubiquitous |-> [m \in marker_ids |-> 0],
                multi_hits_details |-> <<>>,
                msa |-> <<>>,
                fault |-> "none",
                trimmed_seqs |-> <<>>, pruned_seqs |-> <<>>, mask |-> <<>>,
                arb |-> <<>>, marker_info |-> <<>>]

\* one pass of the loop of lines 394-459
Concatenate ==
    /\ wf.pc = "concatenate"
    /\ LET g == wf.metadata[wf.next]
           rows == db.aligned_markers[g]
           n == Handled(rows)
           after == IF wf.next = Len(wf.metadata) THEN "trim" ELSE "concatenate"
       IN IF DOMAIN rows = {}
          THEN /\ logger' = Append(logger, Warning("Genome has no markers for this marker set",
                                                   ExternalId(g)))      \* lines 411-414
               /\ wf' = [wf EXCEPT !.next = @ + 1, !.pc = after]
          ELSE /\ UNCHANGED logger
               /\ wf' = [wf EXCEPT
                     !.single_copy = Counted(@, rows, n, {"Single"}),
                     !.ubiquitous = Counted(@, rows, n, {"Single", "Multiple"}),
                     !.multi_hits_details =
                         IF n = 0 THEN @
                         ELSE @ @@ (g :> [i \in 1..n |-> Classification(rows, Markers[i].id)]),
                     !.msa = IF n = Len(Markers)
                             THEN (ExternalId(g) :> Concatenated(rows, n)) @@ @   \* line 456
                             ELSE @,
                     !.fault = IF n = Len(Markers) THEN @ ELSE "KeyError",     \* line 426
                     !.next = IF n = Len(Markers) THEN @ + 1 ELSE @,
                     !.pc = IF n = Len(Markers) THEN after ELSE "raised"]
    /\ UNCHANGED <<pc, error, genome_ids, args, db, external_ids, guaranteed_ids,
                   guaranteed_is_list, genome_ids_from_taxa, genomes_to_retain, aliased,
                   entered, fout_filtered, trim>>

\* lines 463-485
TrimMsa ==
    /\ wf.pc = "trim"
    /\ LET r == trim_seqs(wf.msa, wf.min_perc_taxa, wf.consensus, wf.min_perc_aa)
       IN IF r.fault # "none"
          THEN wf' = [wf EXCEPT !.fault = r.fault, !.pc = "raised"]       \* line 580
          ELSE IF DOMAIN r.output_seqs = {}
          THEN wf' = [wf EXCEPT !.fault = "IndexError", !.pc = "raised"]  \* line 468
          ELSE wf' = [wf EXCEPT !.mask = r.mask,
                                !.pruned_seqs = r.pruned_seqs,
                                !.trimmed_seqs = AllTrimmed(r),           \* line 481
                                !.next = 1,
                                !.pc = "arb"]
    /\ UNCHANGED <<filterVars, trim>>

\* one pass of the loop of lines 494-519
WriteArb ==
    /\ wf.pc = "arb"
    /\ LET g == wf.metadata[wf.next]
           details == IF g \in DOMAIN wf.multi_hits_details
                      THEN wf.multi_hits_details[g] ELSE <<>>
           count(kind) == Cardinality({i \in DOMAIN details : details[i] = kind})
       IN IF ExternalId(g) \notin DOMAIN wf.trimmed_seqs
          THEN wf' = [wf EXCEPT !.fault = "KeyError", !.pc = "raised"]    \* line 509
          ELSE wf' = [wf EXCEPT
                  !.arb = Append(@, [id |-> ExternalId(g),
                                     multiple_hit_count |-> count("Multiple"),
                                     msa_gene_count |-> count("Single"),
                                     aligned_seq |-> IF wf.alignment
                                                     THEN wf.trimmed_seqs[ExternalId(g)]
                                                     ELSE <<>>]),
                  !.next = @ + 1,
                  !.pc = IF wf.next = Len(wf.metadata) THEN "info" ELSE "arb"]
    /\ UNCHANGED <<filterVars, trim>>

\* lines 523-557: the marker summary, single copy and ubiquity over
\* len(genomes_to_retain)
WriteMarkerInfo ==
    /\ wf.pc = "info"
    /\ wf' = [wf EXCEPT
              !.marker_info = [i \in DOMAIN Markers |->
                                  [size |-> Markers[i].size,
                                   single_copy |-> wf.single_copy[Markers[i].id],
                                   ubiquitous |-> wf.ubiquitous[Markers[i].id],
                                   genomes |-> Cardinality(wf.genomes_to_retain)]],
              !.pc = "done"]
    /\ UNCHANGED <<filterVars, trim>>

NextWrite ==
    \/ Concatenate
    \/ TrimMsa
    \/ WriteArb
    \/ WriteMarkerInfo

SpecWrite == InitWrite /\ [][NextWrite]_vars

-----------------------------------------------------------------------------
(* Properties of writeFiles *)

\* the concatenation loop is over, or the call has ended
LoopOver == wf.pc \in {"trim", "arb", "info", "done", "raised"}

RowsOf(g) == db.aligned_markers[g]

\* the classification of a marker slot by the rows stored on the genome
SlotKind(g, m) ==
    IF m \in DOMAIN RowsOf(g) /\ RowsOf(g)[m].multiple_hits THEN "Multiple"
    ELSE IF m \in DOMAIN RowsOf(g) /\ RowsOf(g)[m].evalue THEN "Single"
    ELSE "Missing"

\* the retained genomes that have a row for some marker
WithMarkers == {g \in wf.genomes_to_retain : DOMAIN RowsOf(g) # {}}

\* C15: once the concatenation loop is over, every retained genome with
\* markers has one classification per marker, in display order: Multiple iff
\* the multiple-hit flag is set, Single iff there is a sequence with a score
\* and no flag, Missing otherwise (also without any row for the marker); the
\* counters hold the genomes with a usable sequence and the Single slots.
MarkerSlotClassification ==
    LoopOver =>
        /\ \A g \in WithMarkers :
              /\ g \in DOMAIN wf.multi_hits_details
              /\ wf.multi_hits_details[g] =
                    [i \in DOMAIN Markers |-> SlotKind(g, Markers[i].id)]
        /\ \A m \in marker_ids :
              /\ wf.single_copy[m] =
                    Cardinality({g \in WithMarkers : SlotKind(g, m) = "Single"})
              /\ wf.ubiquitous[m] =
                    Cardinality({g \in WithMarkers :
                                    m \in DOMAIN RowsOf(g) /\ RowsOf(g)[m].evalue})

\* every stored aligned sequence has its marker's expected length
StoredLengthsExpected ==
    \A g \in wf.genomes_to_retain : \A i \in DOMAIN Markers :
        Markers[i].id \in DOMAIN RowsOf(g) =>
            Len(RowsOf(g)[Markers[i].id].sequence) = Markers[i].size

\* the columns before the segment of the i-th marker
OffsetOf(i) == SeqSum([j \in 1..(i - 1) |-> Markers[j].size])

\* the genome an external id of the MSA stands for
GenomeOf(ext) == CHOOSE g \in Genomes : ExternalId(g) = ext

-----------------------------------------------------------------------------
(* Further properties of filterGenomes *)

ExclusionLines ==
    {k \in DOMAIN fout_filtered.lines :
        fout_filtered.lines[k].reason = "Explicitly marked for exclusion."}

\* C17: when the conflict error is raised, the exclusion list has removed no
\* genome from the retained set and no 'Explicitly marked for exclusion.'
\* record is in the filter report.
ConflictBeforeExclusion ==
    error.type = "GenomeDatabaseError" =>
        /\ genomes_to_retain = entered
        /\ ExclusionLines = {}

\* C18: after a completed run every input genome that is not in the returned
\* set has exactly one record in the filter report and every returned genome
\* has none.
RemovalsAuditedOnce ==
    pc = "done" =>
        \A g \in Input :
            Cardinality(ReportLinesOf(g)) = IF g \in genomes_to_retain THEN 0 ELSE 1

\* C19: after a completed run the caller's genome_ids set holds exactly the
\* ids it held before the call.
InputsNotMutated == pc = "done" => genome_ids = Input

\* the residues of a genome's rows without multiple hits, '-' and '.' both
\* being gap characters
ResiduesOf(g) ==
    LET rows == db.aligned_markers[g]
        ms == SetToSeq({m \in DOMAIN rows \cap marker_ids : ~rows[m].multiple_hits})
    IN SeqSum([k \in DOMAIN ms |->
                  Cardinality({j \in DOMAIN rows[ms[k]].sequence :
                                  rows[ms[k]].sequence[j] \notin {"-", "."}})])

\* C20: the coverage stage takes '.' for a gap as it takes '-': a genome that
\* is neither guaranteed nor representative and whose residues other than '-'
\* and '.' are below min_perc_aa of the alignment length is removed.
DotsAreGaps ==
    pc = "done" =>
        \A g \in entered \ (args.guaranteed_ids \cup args.rep_ids) :
            ResiduesOf(g) * 100 < args.min_perc_aa * total_alignment_len
                => g \notin genomes_to_retain

-----------------------------------------------------------------------------
(* Genomes without markers in writeFiles *)

\* the retained genomes without any aligned-marker row
WithoutMarkers == wf.genomes_to_retain \ WithMarkers

\* every retained genome with markers has a row for each chosen marker
RowsComplete == \A g \in WithMarkers : DOMAIN RowsOf(g) = marker_ids

\* C21: when the call has ended and some retained genome had no marker rows
\* (the others having a row for every marker), the call has run to completion
\* without a fault, each such genome was skipped with a warning and is not in
\* the MSA, and every genome with an ARB record has a trimmed sequence.
WithoutMarkersSkipped ==
    (wf.pc \in {"done", "raised"} /\ WithoutMarkers # {} /\ RowsComplete) =>
        /\ wf.pc = "done"
        /\ wf.fault = "none"
        /\ \A g \in WithoutMarkers :
              /\ ExternalId(g) \notin DOMAIN wf.msa
              /\ \E k \in DOMAIN logger : logger[k].about = ExternalId(g)
        /\ \A k \in DOMAIN wf.arb : wf.arb[k].id \in DOMAIN wf.trimmed_seqs

=============================================================================
